---- MODULE Spec2Model ----
(***************************************************************************)
(* Model of the o2copilot answer pipeline:                                 *)
(*   - LetterTemplateManagerV2 (letters_templates_v2.py): the template     *)
(*     registry, text normalisation and find_matching_template;            *)
(*   - process_sources (app.py): the citation post-processor;              *)
(*   - messages (app.py): the request handler around both;                 *)
(*   - add_template and the matcher's loop run by concurrent threads.      *)
(* Texts are sequences of one-character strings; a few long literal        *)
(* fragments of the HTML are single tokens (named where they are defined). *)
(***************************************************************************)
EXTENDS Integers, Sequences, FiniteSets, TLC

VARIABLES
    templates,      \* LetterTemplateManagerV2.templates: the registry list
    query,          \* argument of the last find_matching_template call
    context,        \* error_message argument of that call
    match,          \* what that call returned (None or the result dict)
    evaluated,      \* per template of that call: what its debug output reports
    pc,             \* where the current call or request stands
    answer,         \* process_sources: response_text argument
    actual_docs,    \* process_sources: actual_docs argument (list of paths)
    links_dict,     \* process_sources: links_dict argument (path -> link)
    processed,      \* what process_sources returned
    reprocessed,    \* what process_sources returned on its own output
    config_file,    \* the configuration file on disk (config_path)
    add_returned,   \* what the last add_template call returned
    template_manager, \* the module-level template_manager: "unset", "None", "loaded"
    serving,        \* app.run has been reached
    request,        \* the request being handled by messages()
    response_data,  \* what prepare_letter_response returned
    gen_calls,      \* requests.post calls made for the current request
    outcome,        \* how the current request ended
    mailto,         \* the "mailto" field of the returned payload
    raised,         \* the exception that ended the current request
    loaded_templates, \* self.templates as the last _load_config left it
    writers,        \* per thread in add_template: its position and locals
    reader          \* the thread in find_matching_template's loop over self.templates

matcherVars == <<templates, query, context, match, evaluated>>
sourcesVars == <<answer, actual_docs, links_dict, processed, reprocessed>>
diskVars == <<config_file, add_returned>>
pipelineVars == <<template_manager, serving, request, response_data,
                  gen_calls, outcome, mailto, raised>>
threadVars == <<writers, reader>>
vars == <<templates, query, context, match, evaluated, pc,
          answer, actual_docs, links_dict, processed, reprocessed,
          config_file, add_returned, template_manager, serving, request,
          response_data, gen_calls, outcome, mailto, raised,
          loaded_templates, writers, reader>>

None == [none |-> TRUE]

\* A step of the handler that has not run in the current request.
NotRun == [not_run |-> TRUE]

\* No request is being handled.
NoRequest == [json |-> FALSE, has_text |-> FALSE, text |-> <<>>, mode |-> "missing"]

(***************************************************************************)
(* Bounds of the explored inputs.                                          *)
(***************************************************************************)
MaxQueryLen == 3
MaxTemplates == 3
MaxBodyLen == 6
MaxShortBodyLen == 3
MaxItems == 2

(***************************************************************************)
(* Generic helpers over sequences.                                         *)
(***************************************************************************)
\* Python's "p in s" for str: p occurs as a contiguous slice of s.
IsSubstring(p, s) ==
    \E i \in 0..(Len(s) - Len(p)) : SubSeq(s, i + 1, i + Len(p)) = p

\* dict.get(k, default)
Get(d, k, default) == IF k \in DOMAIN d THEN d[k] ELSE default

\* All sequences over S of length at most n.
SeqsUpTo(S, n) == UNION {[1..k -> S] : k \in 0..n}

(***************************************************************************)
(* _normalize_text followed by .lower()                                    *)
(***************************************************************************)
Whitespace == {" ", "\n"}

\* text.replace(ELLIPSIS, '...')
RECURSIVE ReplaceEllipsis(_)
ReplaceEllipsis(s) ==
    IF s = <<>> THEN <<>>
    ELSE IF Head(s) = "ELLIPSIS"
         THEN <<".", ".", ".">> \o ReplaceEllipsis(Tail(s))
         ELSE <<Head(s)>> \o ReplaceEllipsis(Tail(s))

\* re.sub(r'\s+', ' ', text): every maximal run of whitespace becomes one space
RECURSIVE CollapseWhitespace(_)
CollapseWhitespace(s) ==
    IF s = <<>> THEN <<>>
    ELSE IF Head(s) \in Whitespace
         THEN IF Len(s) > 1 /\ s[2] \in Whitespace
              THEN CollapseWhitespace(Tail(s))
              ELSE <<" ">> \o CollapseWhitespace(Tail(s))
         ELSE <<Head(s)>> \o CollapseWhitespace(Tail(s))

\* text.replace(',', '')
RemoveCommas(s) == SelectSeq(s, LAMBDA c : c # ",")

RECURSIVE LStrip(_)
LStrip(s) ==
    IF s # <<>> /\ Head(s) \in Whitespace THEN LStrip(Tail(s)) ELSE s

RECURSIVE RStrip(_)
RStrip(s) ==
    IF s # <<>> /\ s[Len(s)] \in Whitespace
    THEN RStrip(SubSeq(s, 1, Len(s) - 1)) ELSE s

\* str.strip()
StripWs(s) == RStrip(LStrip(s))

normalize_text(text) ==
    StripWs(RemoveCommas(CollapseWhitespace(ReplaceEllipsis(text))))

LowerChar(c) == IF c = "A" THEN "a" ELSE IF c = "B" THEN "b" ELSE c

\* str.lower()
Lower(s) == [i \in DOMAIN s |-> LowerChar(s[i])]

(***************************************************************************)
(* Exact arithmetic for match_ratio and score.  The code computes them as  *)
(* floats; with at most a handful of patterns and small integer priorities *)
(* every value is a ratio of small integers and float comparison agrees    *)
(* with the comparison of the exact fractions [num / den], den > 0.        *)
(***************************************************************************)
Frac(n, d) == [num |-> n, den |-> d]
FracGt(x, y) == x.num * y.den > y.num * x.den
FracEq(x, y) == x.num * y.den = y.num * x.den

(***************************************************************************)
(* LetterTemplateManagerV2._load_config: the sort of the template list.    *)
(* list.sort(key=priority, reverse=True) is stable: templates of equal     *)
(* priority keep their relative order.                                     *)
(***************************************************************************)
Priority(t) == Get(t, "priority", 0)

\* t placed ahead of the elements of its own priority.
InsertAheadOfEquals(t, sorted) ==
    LET ahead == {i \in DOMAIN sorted : Priority(sorted[i]) > Priority(t)}
        k == Cardinality(ahead)
    IN SubSeq(sorted, 1, k) \o <<t>> \o SubSeq(sorted, k + 1, Len(sorted))

\* t placed behind every element of the sorted list whose priority is >= its own
InsertByPriority(t, sorted) ==
    LET ahead == {i \in DOMAIN sorted : Priority(sorted[i]) >= Priority(t)}
        k == Cardinality(ahead)
    IN SubSeq(sorted, 1, k) \o <<t>> \o SubSeq(sorted, k + 1, Len(sorted))

RECURSIVE SortByPriority(_)
SortByPriority(s) ==
    IF s = <<>> THEN <<>>
    ELSE InsertByPriority(s[Len(s)], SortByPriority(SubSeq(s, 1, Len(s) - 1)))

(***************************************************************************)
(* LetterTemplateManagerV2.find_matching_template                          *)
(***************************************************************************)
\* The loop "for pattern in patterns": patterns found in the query.  The
\* normalised context is in scope and, by the commented-out branch, not used.
main_match_count_with_context(patterns, normalized_query, normalized_context) ==
    Cardinality({i \in DOMAIN patterns :
        \/ IsSubstring(Lower(patterns[i]), normalized_query)
        \/ IsSubstring(Lower(patterns[i]), normalized_context)})

main_match_count(patterns, normalized_query, normalized_context) ==
    Cardinality({i \in DOMAIN patterns :
        IsSubstring(Lower(patterns[i]), normalized_query)})

\* alt_match: some group has all of its members in the query
alt_match(alternative_patterns, normalized_query) ==
    \E g \in DOMAIN alternative_patterns :
        \A j \in DOMAIN alternative_patterns[g] :
            IsSubstring(Lower(alternative_patterns[g][j]), normalized_query)

match_ratio(main_count, main_patterns_count) ==
    IF main_patterns_count > 0
    THEN Frac(main_count, main_patterns_count)
    ELSE Frac(0, 1)

\* is_match = (main_match_count == main_patterns_count) or alt_match
is_match(main_count, main_patterns_count, alt) ==
    (main_count = main_patterns_count) \/ alt

\* score = match_ratio * 100 + priority
score_of(ratio, priority) == Frac(ratio.num * 100 + priority * ratio.den, ratio.den)

\* One iteration of the loop body up to "if is_match": what debug prints.
evaluate_template(template, normalized_query, normalized_context) ==
    LET patterns == Get(template, "patterns", <<>>)
        alternative_patterns == Get(template, "alternative_patterns", <<>>)
        main_count == main_match_count(patterns, normalized_query, normalized_context)
        alt == alt_match(alternative_patterns, normalized_query)
        ratio == match_ratio(main_count, Len(patterns))
    IN [template |-> template,
        is_match |-> is_match(main_count, Len(patterns), alt),
        score |-> score_of(ratio, Priority(template))]

\* "if score > best_score": the update of the best match
better_or_equal(score, best_score) == ~FracGt(best_score, score)

better(score, best_score) == FracGt(score, best_score)

\* The loop over self.templates, from best_match = None, best_score = 0.
RECURSIVE best_of(_, _)
best_of(evals, k) ==
    IF k = 0 THEN [best_match |-> None, best_score |-> Frac(0, 1)]
    ELSE LET prev == best_of(evals, k - 1)
             e == evals[k]
         IN IF e.is_match /\ better(e.score, prev.best_score)
            THEN [best_match |-> e.template, best_score |-> e.score]
            ELSE prev

evaluate_all(tpls, text, error_message) ==
    LET normalized_query == Lower(normalize_text(text))
        normalized_context == IF error_message # <<>>
                              THEN Lower(normalize_text(error_message))
                              ELSE <<>>
    IN [i \in DOMAIN tpls |->
            evaluate_template(tpls[i], normalized_query, normalized_context)]

find_matching_template(tpls, text, error_message) ==
    LET evals == evaluate_all(tpls, text, error_message)
        best == best_of(evals, Len(evals))
    IN IF best.best_match # None
       THEN [id |-> best.best_match.id,
             action |-> best.best_match.action,
             msg_file |-> best.best_match.msg_file,
             priority |-> Priority(best.best_match),
             score |-> best.best_score]
       ELSE None

(***************************************************************************)
(* LetterTemplateManagerV2.add_template, up to the sort (the registry in   *)
(* memory): refused when the id exists, else appended and re-sorted.       *)
(***************************************************************************)
id_exists(tpls, template_id) == \E i \in DOMAIN tpls : tpls[i].id = template_id

add_template(tpls, new_template) ==
    IF id_exists(tpls, new_template.id)
    THEN tpls
    ELSE SortByPriority(Append(tpls, new_template))

\* How the write of _save_config may go: it succeeds; open(config_path, 'w')
\* raises and the file stays as it was; or json.dump raises after open has
\* truncated the file, which leaves it without a complete JSON document.
WriteResults == {"ok", "open_failed", "dump_failed"}

\* _save_config: the file after the call.
save_config(file, tpls, write) ==
    IF write = "ok" THEN [state |-> "valid", templates |-> tpls]
    ELSE IF write = "open_failed" THEN file
    ELSE [state |-> "malformed"]

\* What _save_config returns: True, or False from its except clause.
save_config_returns(write) == IF write = "ok" THEN "True" ELSE "False"

\* What add_template returns: False for a known id, else _save_config's result.
add_template_returns(tpls, new_template, write) ==
    IF id_exists(tpls, new_template.id) THEN "False"
    ELSE save_config_returns(write)

\* _load_config: the registry read from the file, or the exception raised.
load_config(file) ==
    IF file.state = "valid"
    THEN [raised |-> "none", templates |-> SortByPriority(file.templates)]
    ELSE IF file.state = "missing"
         THEN [raised |-> "FileNotFoundError", templates |-> <<>>]
         ELSE [raised |-> "JSONDecodeError", templates |-> <<>>]

(***************************************************************************)
(* The explored inputs: pattern strings, a pool of template definitions,   *)
(* queries and context texts.                                              *)
(***************************************************************************)
P_a == <<"a">>
P_b == <<"b">>
P_A == <<"A">>
P_a_b == <<"a", " ", "b">>
P_dots == <<".", ".", ".">>

\* Templates as they may stand in the configuration file.
ConfigPool == {
    [id |-> "t_ab", patterns |-> <<P_a, P_b>>,
     alternative_patterns |-> << <<P_dots>> >>,
     action |-> "block_and_notify", msg_file |-> "ab.msg", priority |-> 50],
    [id |-> "t_A", patterns |-> <<P_A>>,
     action |-> "push_and_notify", msg_file |-> "a.msg", priority |-> 0],
    [id |-> "t_empty", patterns |-> <<>>,
     action |-> "block_no_notify", msg_file |-> "", priority |-> 10],
    [id |-> "t_alt", patterns |-> <<>>,
     alternative_patterns |-> << <<P_b>>, <<P_a, P_dots>> >>,
     action |-> "lenta_gln_change", msg_file |-> "alt.msg"],
    [id |-> "t_neg", patterns |-> <<P_a_b>>,
     action |-> "other", msg_file |-> "neg.msg", priority |-> -100] }

\* Templates as add_template builds them (no alternative_patterns key).
AddPool == {
    [id |-> "t_b", patterns |-> <<P_b>>,
     action |-> "block_and_notify", msg_file |-> "b.msg", priority |-> 0],
    [id |-> "t_A", patterns |-> <<P_a, P_a_b>>,
     action |-> "push_and_notify", msg_file |-> "a2.msg", priority |-> 50] }

DistinctIds(s) == \A i, j \in DOMAIN s : i # j => s[i].id # s[j].id

Configs == {c \in SeqsUpTo(ConfigPool, MaxTemplates) : DistinctIds(c)}

QueryChars == {"a", "B", " ", ",", "ELLIPSIS"}
Queries == SeqsUpTo(QueryChars, MaxQueryLen)

Contexts == {<<>>, <<"A", " ", "b">>}

(***************************************************************************)
(* SpecMatch: the registry and the matcher.                                *)
(***************************************************************************)
\* The threads that call add_template concurrently.
Writers == 1..2

\* A thread that is not inside add_template / not inside the matcher's loop.
IdleWriter == [pc |-> "idle", new_template |-> None, saved |-> <<>>, calls |-> 0]
IdleReader == [pc |-> "idle", i |-> 0, seen |-> <<>>]

ThreadsAtRest ==
    /\ writers = [w \in Writers |-> IdleWriter]
    /\ reader = IdleReader

\* The handler's variables while no request is handled.
PipelineAtRest ==
    /\ request = NoRequest
    /\ response_data = NotRun
    /\ gen_calls = 0
    /\ outcome = "none"
    /\ mailto = "absent"
    /\ raised = "none"

\* After LetterTemplateManagerV2.__init__ on a well-formed configuration.
InitMatch ==
    /\ config_file \in {[state |-> "valid", templates |-> c] : c \in Configs}
    /\ templates = load_config(config_file).templates
    /\ template_manager = "loaded"
    /\ serving = FALSE
    /\ add_returned = "none"
    /\ query = <<>>
    /\ context = <<>>
    /\ match = None
    /\ evaluated = <<>>
    /\ pc = "idle"
    /\ answer = <<>>
    /\ actual_docs = <<>>
    /\ links_dict = <<>>
    /\ processed = <<>>
    /\ reprocessed = <<>>
    /\ PipelineAtRest
    /\ loaded_templates = templates
    /\ ThreadsAtRest

\* A call of find_matching_template(query, error_message), start to return.
FindMatchingTemplate ==
    /\ pc = "idle"
    /\ \E q \in Queries, c \in Contexts :
        /\ query' = q
        /\ context' = c
        /\ evaluated' = evaluate_all(templates, q, c)
        /\ match' = find_matching_template(templates, q, c)
        /\ pc' = "returned"
        /\ UNCHANGED <<templates, sourcesVars, diskVars, pipelineVars>>
    /\ UNCHANGED <<loaded_templates, threadVars>>

\* The caller has taken the result; the call's locals are gone.
ReturnMatch ==
    /\ pc = "returned"
    /\ query' = <<>>
    /\ context' = <<>>
    /\ match' = None
    /\ evaluated' = <<>>
    /\ pc' = "idle"
    /\ UNCHANGED <<templates, sourcesVars, diskVars, pipelineVars>>
    /\ UNCHANGED <<loaded_templates, threadVars>>

\* A call of add_template, start to return: the id check, the append, the
\* sort and _save_config (whose write may fail).
AddTemplate ==
    /\ pc = "idle"
    /\ Len(templates) < MaxTemplates
    /\ \E t \in AddPool, write \in WriteResults :
        /\ templates' = add_template(templates, t)
        /\ config_file' = IF id_exists(templates, t.id) THEN config_file
                          ELSE save_config(config_file, templates', write)
        /\ add_returned' = add_template_returns(templates, t, write)
        /\ pc' = "added"
        /\ UNCHANGED <<query, context, match, evaluated, sourcesVars, pipelineVars>>
    /\ UNCHANGED <<loaded_templates, threadVars>>

ReturnAdd ==
    /\ pc = "added"
    /\ add_returned' = "none"
    /\ pc' = "idle"
    /\ UNCHANGED <<matcherVars, sourcesVars, config_file, pipelineVars>>
    /\ UNCHANGED <<loaded_templates, threadVars>>

\* A call of reload_config: _load_config replaces and sorts the registry, or
\* raises before it has touched it.
ReloadConfig ==
    /\ pc = "idle"
    /\ LET l == load_config(config_file)
       IN IF l.raised = "none"
          THEN /\ templates' = l.templates
               /\ loaded_templates' = l.templates
               /\ pc' = "reloaded"
          ELSE /\ UNCHANGED <<templates, loaded_templates>>
               /\ pc' = "reload_raised"
    /\ UNCHANGED <<query, context, match, evaluated, sourcesVars, diskVars,
                   pipelineVars, threadVars>>

ReturnReload ==
    /\ pc \in {"reloaded", "reload_raised"}
    /\ pc' = "idle"
    /\ UNCHANGED <<matcherVars, sourcesVars, diskVars, pipelineVars,
                   loaded_templates, threadVars>>

NextMatch ==
    \/ FindMatchingTemplate
    \/ ReturnMatch
    \/ AddTemplate
    \/ ReturnAdd
    \/ ReloadConfig
    \/ ReturnReload

SpecMatch == InitMatch /\ [][NextMatch]_vars

(***************************************************************************)
(* Claims about the matcher, checked under SpecMatch.                      *)
(***************************************************************************)
NormalizedQuery == Lower(normalize_text(query))

PatternsOf(t) == Get(t, "patterns", <<>>)
AlternativesOf(t) == Get(t, "alternative_patterns", <<>>)

\* C1 (as the specification states it): a template with no main patterns
\* matches when one of its alternative AND-groups is satisfied, and a template
\* with no main patterns and no alternative groups matches no query and is
\* never the one selected.
C1_EmptyPatternsNeedAlternatives ==
    pc = "returned" =>
        \A i \in DOMAIN evaluated :
            LET e == evaluated[i]
                t == e.template
            IN PatternsOf(t) = <<>> =>
                /\ alt_match(AlternativesOf(t), NormalizedQuery) => e.is_match
                /\ AlternativesOf(t) = <<>> =>
                       /\ ~e.is_match
                       /\ (match # None => match.id # t.id)

\* The score of section 4.1: matchRatio * 100 + priority, matchRatio being
\* hits / pattern count, and 0 without patterns.
C2_Score(i) ==
    LET t == evaluated[i].template
        n == Len(PatternsOf(t))
        hits == Cardinality({k \in 1..n :
                    IsSubstring(Lower(PatternsOf(t)[k]), NormalizedQuery)})
    IN IF n = 0 THEN Frac(Priority(t), 1)
       ELSE Frac(hits * 100 + Priority(t) * n, n)

C2_Matching == {i \in DOMAIN evaluated : evaluated[i].is_match}

C2_Top == {i \in C2_Matching :
              \A j \in C2_Matching : ~FracGt(C2_Score(j), C2_Score(i))}

C2_First(S) == CHOOSE i \in S : \A j \in S : i <= j

\* C2: a returned template has the highest score among the templates that
\* match, and among those that share this score it is the earliest of the
\* registry; the score returned is that score.
C2_BestScoreEarliestWins ==
    (pc = "returned" /\ match # None) =>
        /\ C2_Top # {}
        /\ match.id = evaluated[C2_First(C2_Top)].template.id
        /\ FracEq(match.score, C2_Score(C2_First(C2_Top)))

\* C2 witness: a template was returned while two matching templates tied at
\* the highest score.
C2_Witness ==
    /\ pc = "returned"
    /\ match # None
    /\ Cardinality(C2_Top) >= 2

\* C3: the result of a call is the result the same query gives under every
\* other context text.
C3_ContextIgnored ==
    pc = "returned" =>
        \A c \in Contexts : find_matching_template(templates, query, c) = match

\* C3 witness: a call returned none although the context holds the one
\* pattern of a template that the query lacks.
C3_Witness ==
    /\ pc = "returned"
    /\ match = None
    /\ context # <<>>
    /\ \E i \in DOMAIN templates :
           /\ Len(PatternsOf(templates[i])) = 1
           /\ Priority(templates[i]) >= 0
           /\ IsSubstring(Lower(PatternsOf(templates[i])[1]),
                          Lower(normalize_text(context)))
           /\ ~IsSubstring(Lower(PatternsOf(templates[i])[1]), NormalizedQuery)

\* C17 (as the specification states it): find_matching_template returns a
\* template whenever some template of the registry satisfies is_match for
\* the query, whatever the priorities (zero and negative ones included) and
\* the match ratios (ratio 0 of a template matched through an alternative
\* group included); it returns none only when no template matches.
C17_SomeMatchIsReturned ==
    pc = "returned" =>
        (match = None <=> \A i \in DOMAIN evaluated : ~evaluated[i].is_match)

SortedByPriority(s) ==
    \A i, j \in DOMAIN s : i < j => Priority(s[i]) >= Priority(s[j])

\* Templates of equal priority that stand in both lists stand in the same
\* relative order in both.
KeepsOrder(before, after) ==
    \A i, j \in DOMAIN before :
        (i < j /\ Priority(before[i]) = Priority(before[j])) =>
            \A k, l \in DOMAIN after :
                (after[k] = before[i] /\ after[l] = before[j]) => k < l

\* The templates of the list after that the list before did not hold.
NewIn(before, after) ==
    SelectSeq(after, LAMBDA t : \A i \in DOMAIN before : before[i] # t)

\* C13: the registry is sorted in non-increasing order of priority (a missing
\* priority counting as 0) after the load and after every add_template and
\* reload_config call, and templates of equal priority keep their earlier
\* relative order: the order of the file for a load, the order of the
\* registry for an add, the added template coming behind its equals.
C13_RegistryStaysSorted ==
    /\ KeepsOrder(config_file.templates, templates)
    /\ [](SortedByPriority(templates))
    /\ [][/\ KeepsOrder(templates \o NewIn(templates, templates'), templates')
          /\ pc' = "reloaded" => KeepsOrder(config_file.templates, templates')]_vars

\* C13 witness: add_template has added a template to a registry that holds
\* another template of the same priority.
C13_Witness ==
    /\ pc = "added"
    /\ add_returned = "True"
    /\ \E i, j \in DOMAIN templates :
           /\ i < j
           /\ Priority(templates[i]) = Priority(templates[j])
           /\ templates[j] \in AddPool

\* C18 (as the specification states it): a call of add_template that returns
\* False, for a known id or for a failed write of the configuration, leaves
\* the registry list as it was before the call; the list gains the template
\* only in a call that returns True.
C18_AddTemplateAllOrNothing ==
    [][pc' = "added" =>
          /\ add_returned' = "False" => templates' = templates
          /\ templates' # templates => add_returned' = "True"]_vars

(***************************************************************************)
(* process_sources (app.py).  An answer is a sequence of tokens: single    *)
(* characters, whole HTML tags and the literal words of the markers:       *)
(*   "SOURCES"    the heading text of the Sources section,                 *)
(*   "ACCURACY:"  the label of the confidence marker,                      *)
(*   "NOT_FOUND"  the text of the "not found" paragraph,                   *)
(*   "<p_red>"    the opening tag of that paragraph,                       *)
(*   "<a L1>"     the anchor tag <a href="L1" target="_blank">.            *)
(***************************************************************************)
Digits == {"0", "1", "7"}

Tags == {"<h3>", "</h3>", "<ol>", "</ol>", "<li>", "</li>", "<b>", "</b>",
         "<p_red>", "</p>", "<a L1>", "<a L2>", "</a>"}

TokenAt(text, i) == IF i \in DOMAIN text THEN text[i] ELSE "END"

\* text[i-1 : j] of Python, positions counted from 1 ("END" past the end).
Slice(text, i, j) == [k \in 1..(j - i + 1) |-> TokenAt(text, i + k - 1)]

\* First position from i on whose token is not in S (Len + 1 if none).
RECURSIVE SkipWhile(_, _, _)
SkipWhile(text, i, S) ==
    IF i <= Len(text) /\ text[i] \in S THEN SkipWhile(text, i + 1, S) ELSE i

\* First position from i on whose token is tok (0 if none).
RECURSIVE FindToken(_, _, _)
FindToken(text, i, tok) ==
    IF i > Len(text) THEN 0
    ELSE IF text[i] = tok THEN i ELSE FindToken(text, i + 1, tok)

\* r"\[\d+\]" matched at position i: the position of its last token, else 0.
MarkerEndAt(text, i) ==
    LET k == SkipWhile(text, i + 1, Digits)
    IN IF TokenAt(text, i) = "[" /\ k > i + 1 /\ TokenAt(text, k) = "]"
       THEN k ELSE 0

\* re.sub(r"\[\d+\]", "", text): one pass, left to right, over the input.
RECURSIVE StripMarkersFrom(_, _)
StripMarkersFrom(text, i) ==
    IF i > Len(text) THEN <<>>
    ELSE LET e == MarkerEndAt(text, i)
         IN IF e > 0 THEN StripMarkersFrom(text, e + 1)
            ELSE <<text[i]>> \o StripMarkersFrom(text, i + 1)

StripMarkers(text) == StripMarkersFrom(text, 1)

ConfidencePrefix == <<"ACCURACY:", "<b>", " ">>
ConfidenceSuffix == <<"/", "1", "0", "</b>">>
ConfidenceZero == ConfidencePrefix \o <<"0">> \o ConfidenceSuffix

\* r"ACCURACY:<b> \d+/10</b>" matched at i: position of its last token, else 0.
ConfidenceEndAt(text, i) ==
    LET k == SkipWhile(text, i + 3, Digits)
    IN IF /\ Slice(text, i, i + 2) = ConfidencePrefix
          /\ k > i + 3
          /\ Slice(text, k, k + 3) = ConfidenceSuffix
       THEN k + 3 ELSE 0

\* re.sub(<confidence pattern>, "ACCURACY:<b> 0/10</b>", text)
RECURSIVE ZeroConfidenceFrom(_, _)
ZeroConfidenceFrom(text, i) ==
    IF i > Len(text) THEN <<>>
    ELSE LET e == ConfidenceEndAt(text, i)
         IN IF e > 0 THEN ConfidenceZero \o ZeroConfidenceFrom(text, e + 1)
            ELSE <<text[i]>> \o ZeroConfidenceFrom(text, i + 1)

ZeroConfidence(text) == ZeroConfidenceFrom(text, 1)

SourcesHeading == <<"<h3>", "SOURCES", "</h3>">>

\* r"<h3>SOURCES</h3>\s*<ol>(.*?)</ol>" (DOTALL) matched at i: the positions
\* of <ol> and of the first </ol> behind it, else None.
SourcesBlockAt(text, i) ==
    LET k == SkipWhile(text, i + 3, Whitespace)
        e == FindToken(text, k + 1, "</ol>")
    IN IF /\ Slice(text, i, i + 2) = SourcesHeading
          /\ TokenAt(text, k) = "<ol>"
          /\ e > 0
       THEN [start |-> i, ol |-> k, end |-> e] ELSE None

\* re.search of that pattern: the leftmost match from position i on.
RECURSIVE SearchSourcesFrom(_, _)
SearchSourcesFrom(text, i) ==
    IF i > Len(text) THEN None
    ELSE IF SourcesBlockAt(text, i) # None THEN SourcesBlockAt(text, i)
         ELSE SearchSourcesFrom(text, i + 1)

sources_match(text) == SearchSourcesFrom(text, 1)

\* re.sub of that pattern by new_sources_section: every block is replaced.
RECURSIVE ReplaceSourcesFrom(_, _, _)
ReplaceSourcesFrom(text, i, new_sources_section) ==
    IF i > Len(text) THEN <<>>
    ELSE LET m == SourcesBlockAt(text, i)
         IN IF m # None
            THEN new_sources_section
                     \o ReplaceSourcesFrom(text, m.end + 1, new_sources_section)
            ELSE <<text[i]>> \o ReplaceSourcesFrom(text, i + 1, new_sources_section)

ReplaceSources(text, new_sources_section) ==
    ReplaceSourcesFrom(text, 1, new_sources_section)

\* re.findall(r"<li>(.*?)</li>", sources_content, DOTALL)
RECURSIVE FindItemsFrom(_, _)
FindItemsFrom(content, i) ==
    LET li == FindToken(content, i, "<li>")
        close == IF li = 0 THEN 0 ELSE FindToken(content, li + 1, "</li>")
    IN IF li = 0 \/ close = 0 THEN <<>>
       ELSE <<SubSeq(content, li + 1, close - 1)>> \o FindItemsFrom(content, close + 1)

source_items(content) == FindItemsFrom(content, 1)

\* re.sub(r"<[^>]+>", "", item).strip()
clean_item(item) == StripWs(SelectSeq(item, LAMBDA tok : tok \notin Tags))

\* path.split("/")[-1]
FileName(path) ==
    LET slashes == {i \in DOMAIN path : path[i] = "/"}
        last == IF slashes = {} THEN 0
                ELSE CHOOSE i \in slashes : \A j \in slashes : j <= i
    IN SubSeq(path, last + 1, Len(path))

\* The condition of the inner loop: the label matches the path.
LabelMatchesPath(label, path) ==
    \/ IsSubstring(path, label)
    \/ IsSubstring(label, path)
    \/ label = FileName(path)

\* "if path in links_dict" under the label condition: only then is the item
\* marked matched and the loop over the paths left.
path_accepted(label, path, links) ==
    LabelMatchesPath(label, path) /\ path \in DOMAIN links

\* The loop "for path in actual_docs" for one item: the link of the first
\* accepted path, None when no path is accepted.
RECURSIVE resolve_link(_, _, _, _)
resolve_link(label, docs, links, k) ==
    IF k > Len(docs) THEN None
    ELSE IF path_accepted(label, docs[k], links)
         THEN [link |-> Get(links, docs[k], "")]
         ELSE resolve_link(label, docs, links, k + 1)

\* valid_sources: one (item, link) pair per list item
valid_sources(items, docs, links) ==
    [n \in DOMAIN items |->
        [item |-> items[n],
         link |-> resolve_link(clean_item(items[n]), docs, links, 1)]]

NotFoundSection ==
    SourcesHeading \o <<"\n", "<p_red>", "NOT_FOUND", "</p>">>

AnchorOpen(link) ==
    CASE link = "L1" -> "<a L1>"
      [] link = "L2" -> "<a L2>"

\* One element of new_list_items.
list_item(vs) ==
    IF vs.link # None
    THEN <<"<li>", AnchorOpen(vs.link.link)>> \o vs.item \o <<"</a>", "</li>">>
    ELSE <<"<li>">> \o vs.item \o <<"</li>">>

RECURSIVE JoinItems(_, _)
JoinItems(valid, n) ==
    IF n > Len(valid) THEN <<>>
    ELSE list_item(valid[n]) \o JoinItems(valid, n + 1)

LinkedSection(valid) ==
    SourcesHeading \o <<"<ol>">> \o JoinItems(valid, 1) \o <<"</ol>">>

\* The first branch: no Sources section found.
process_without_section(response_text) ==
    ReplaceSources(ZeroConfidence(StripMarkers(response_text)), NotFoundSection)

process_sources(response_text, docs, links) ==
    LET m == sources_match(response_text)
    IN IF m = None THEN process_without_section(response_text)
       ELSE LET items == source_items(SubSeq(response_text, m.ol + 1, m.end - 1))
                valid == valid_sources(items, docs, links)
            IN IF ~\E n \in DOMAIN valid : valid[n].link # None
               THEN ReplaceSources(ZeroConfidence(StripMarkers(response_text)),
                                   NotFoundSection)
               ELSE ReplaceSources(response_text, LinkedSection(valid))

(***************************************************************************)
(* The explored answers: a body of bracket characters, an optional Sources *)
(* section with up to MaxItems list items, an optional confidence marker.  *)
(* Bodies of up to MaxShortBodyLen characters go with every section, the   *)
(* longer ones (up to MaxBodyLen) with no section or a one-item section.   *)
(***************************************************************************)
BodyChars == {"[", "1", "]"}
Bodies == SeqsUpTo(BodyChars, MaxBodyLen)
ShortBodies == SeqsUpTo(BodyChars, MaxShortBodyLen)

ItemPool == {<<"a">>, <<"<b>", "b", "</b>">>, <<>>}

RECURSIVE ListItems(_, _)
ListItems(items, n) ==
    IF n > Len(items) THEN <<>>
    ELSE <<"<li>">> \o items[n] \o <<"</li>">> \o ListItems(items, n + 1)

SectionOf(items) ==
    SourcesHeading \o <<"\n", "<ol>">> \o ListItems(items, 1) \o <<"</ol>">>

Sections == {<<>>} \cup {SectionOf(items) : items \in SeqsUpTo(ItemPool, MaxItems)}

ConfidenceSeven == ConfidencePrefix \o <<"7">> \o ConfidenceSuffix
Confidences == {<<>>, ConfidenceSeven}

SmallSections == {<<>>, SectionOf(<< <<"a">> >>)}

\* What may stand behind a one-item Sources section: a bracket marker and a
\* second Sources section, or a list without the heading.
TrailingBlocks ==
    {<<"[", "1", "]">> \o SectionOf(<< it >>) : it \in ItemPool}
    \cup {<<"<ol>">> \o ListItems(<< <<"a">> >>, 1) \o <<"</ol>">>}

Answers ==
    {b \o sec \o c : b \in ShortBodies, sec \in Sections, c \in Confidences}
    \cup {b \o sec \o c : b \in Bodies, sec \in SmallSections, c \in Confidences}
    \cup {SectionOf(<< it >>) \o blk \o c :
              it \in ItemPool, blk \in TrailingBlocks, c \in Confidences}

Path_f_a == <<"f", "/", "a">>
Path_b == <<"b">>

\* (actual_docs, links_dict) of a request
Retrievals == {
    [docs |-> <<>>, links |-> <<>>],
    [docs |-> <<Path_f_a>>, links |-> <<>>],
    [docs |-> <<Path_f_a>>, links |-> (Path_f_a :> "L1")],
    [docs |-> <<Path_f_a, Path_b>>, links |-> (Path_b :> "L2")] }

(***************************************************************************)
(* SpecSources: process_sources applied to an answer, and to its own       *)
(* output with the same documents and links.                               *)
(***************************************************************************)
InitSources ==
    /\ config_file = [state |-> "valid", templates |-> <<>>]
    /\ add_returned = "none"
    /\ template_manager = "loaded"
    /\ serving = FALSE
    /\ PipelineAtRest
    /\ templates = <<>>
    /\ query = <<>>
    /\ context = <<>>
    /\ match = None
    /\ evaluated = <<>>
    /\ pc = "idle"
    /\ answer = <<>>
    /\ actual_docs = <<>>
    /\ links_dict = <<>>
    /\ processed = <<>>
    /\ reprocessed = <<>>
    /\ loaded_templates = <<>>
    /\ ThreadsAtRest

ProcessSources ==
    /\ pc = "idle"
    /\ \E a \in Answers, r \in Retrievals :
        /\ answer' = a
        /\ actual_docs' = r.docs
        /\ links_dict' = r.links
        /\ processed' = process_sources(a, r.docs, r.links)
        /\ pc' = "processed"
        /\ UNCHANGED <<matcherVars, reprocessed, diskVars, pipelineVars>>
    /\ UNCHANGED <<loaded_templates, threadVars>>

ProcessSourcesAgain ==
    /\ pc = "processed"
    /\ reprocessed' = process_sources(processed, actual_docs, links_dict)
    /\ pc' = "reprocessed"
    /\ UNCHANGED <<matcherVars, answer, actual_docs, links_dict, processed,
                   diskVars, pipelineVars>>
    /\ UNCHANGED <<loaded_templates, threadVars>>

ReturnSources ==
    /\ pc \in {"processed", "reprocessed"}
    /\ pc' = "idle"
    /\ answer' = <<>>
    /\ actual_docs' = <<>>
    /\ links_dict' = <<>>
    /\ processed' = <<>>
    /\ reprocessed' = <<>>
    /\ UNCHANGED <<matcherVars, diskVars, pipelineVars>>
    /\ UNCHANGED <<loaded_templates, threadVars>>

NextSources == ProcessSources \/ ProcessSourcesAgain \/ ReturnSources

SpecSources == InitSources /\ [][NextSources]_vars

(***************************************************************************)
(* Claims about process_sources, checked under SpecSources.                *)
(***************************************************************************)
\* The candidate citation labels of a text: the cleaned items of its Sources
\* section, none when the section is absent.
LabelsOf(text) ==
    LET m == sources_match(text)
    IN IF m = None THEN <<>>
       ELSE LET items == source_items(SubSeq(text, m.ol + 1, m.end - 1))
            IN [n \in DOMAIN items |-> clean_item(items[n])]

LabelMatchesSomePath(label, docs) ==
    \E k \in DOMAIN docs : LabelMatchesPath(label, docs[k])

NoLabelMatches(text, docs) ==
    \A n \in DOMAIN LabelsOf(text) : ~LabelMatchesSomePath(LabelsOf(text)[n], docs)

HasMarker(text) == \E i \in DOMAIN text : MarkerEndAt(text, i) > 0

AllConfidenceZero(text) ==
    \A i \in DOMAIN text :
        ConfidenceEndAt(text, i) > 0 =>
            Slice(text, i, ConfidenceEndAt(text, i)) = ConfidenceZero

\* C4 (as the specification states it): when no label of the Sources section
\* matches an actual document path (the section may be absent, the paths
\* empty), the output holds no bracket-numbered marker and every confidence
\* marker in it reads 0/10, however the markers of the input were arranged.
C4_UnsupportedAnswerHasNoMarkers ==
    (pc = "processed" /\ NoLabelMatches(answer, actual_docs)) =>
        /\ ~HasMarker(processed)
        /\ AllConfidenceZero(processed)

\* C5 (as the specification states it): process_sources applied to its own
\* output, with the same documents and links, returns that output.
C5_ProcessSourcesIdempotent ==
    pc = "reprocessed" => reprocessed = processed

\* C6 (as the specification states it): when some label of the Sources
\* section matches an actual document path, with or without a link index
\* entry, the answer is not invalidated: the text before and behind the
\* section (bracket markers, confidence marker) is kept, there is no "not
\* found" marker, and the section lists every label, those without a
\* resolved link as plain items.
C6_MatchWithoutLinkIsValid ==
    (pc = "processed"
        /\ \E n \in DOMAIN LabelsOf(answer) :
               LabelMatchesSomePath(LabelsOf(answer)[n], actual_docs)) =>
        LET m == sources_match(answer)
            items == source_items(SubSeq(answer, m.ol + 1, m.end - 1))
            out == sources_match(processed)
        IN /\ \A i \in DOMAIN processed : processed[i] # "NOT_FOUND"
           /\ SubSeq(processed, 1, m.start - 1) = SubSeq(answer, 1, m.start - 1)
           /\ out # None
           /\ SubSeq(processed, out.end + 1, Len(processed))
                  = SubSeq(answer, m.end + 1, Len(answer))
           /\ LET outItems == source_items(SubSeq(processed, out.ol + 1, out.end - 1))
              IN /\ Len(outItems) = Len(items)
                 /\ \A n \in DOMAIN items :
                        resolve_link(clean_item(items[n]), actual_docs, links_dict, 1) = None
                            => outItems[n] = items[n]

\* Some item of the located Sources section resolves to a link: the branch
\* of process_sources that does not invalidate the answer.
SomeCitationVerified ==
    LET m == sources_match(answer)
    IN /\ m # None
       /\ LET items == source_items(Slice(answer, m.ol + 1, m.end - 1))
          IN \E n \in DOMAIN items :
                resolve_link(clean_item(items[n]), actual_docs, links_dict, 1) # None

\* C16 (as the specification states it): when at least one citation is
\* verified, the output is the input with the located Sources block (heading
\* and ordered list) replaced: the text before the block and the text behind
\* it (bracket markers, confidence marker, any other list or heading) are
\* those of the input, and the rebuilt list holds the items of the original
\* list, as many and in the same order.
C16_OnlySourcesBlockRewritten ==
    (pc = "processed" /\ SomeCitationVerified) =>
        LET m == sources_match(answer)
            items == source_items(Slice(answer, m.ol + 1, m.end - 1))
            out == sources_match(processed)
        IN /\ out # None
           /\ out.start = m.start
           /\ Slice(processed, 1, out.start - 1) = Slice(answer, 1, m.start - 1)
           /\ Slice(processed, out.end + 1, Len(processed))
                  = Slice(answer, m.end + 1, Len(answer))
           /\ LET outItems == source_items(Slice(processed, out.ol + 1, out.end - 1))
              IN /\ Len(outItems) = Len(items)
                 /\ \A n \in DOMAIN items :
                        SelectSeq(outItems[n], LAMBDA tok : tok \notin {"<a L1>", "<a L2>", "</a>"})
                            = items[n]

(***************************************************************************)
(* messages() (app.py): the request handler, and the start of the service. *)
(***************************************************************************)
\* "if not data or 'text' not in data" and, outside the try, data["mode"].
validate_request(req) ==
    IF ~req.json \/ ~req.has_text THEN "bad_request"
    ELSE IF req.mode = "missing" THEN "KeyError"
    ELSE "ok"

\* The except clauses of the handler: RequestException, then Exception.
handler_outcome_always_internal(exc) == "internal_error"

handler_outcome(exc) ==
    IF exc = "RequestException" THEN "service_unavailable" ELSE "internal_error"

\* An exception leaving a function instead of a return value.
Raised(exc) == [raised |-> exc]

\* prepare_letter_response with every failure raised to the caller.
prepare_letter_response_raising(template_config, file_state) ==
    IF template_config.msg_file = "" THEN Raised("LetterNotFound")
    ELSE IF file_state # "ok" THEN Raised("LetterNotFound")
    ELSE [template_id |-> template_config.id, action |-> template_config.action]

\* prepare_letter_response: None without a file name, without the file, or
\* when reading it fails; else the letter's fields.
prepare_letter_response(template_config, file_state) ==
    IF template_config.msg_file = "" THEN None
    ELSE IF file_state = "absent" THEN None
    ELSE IF file_state = "unreadable" THEN None
    ELSE [template_id |-> template_config.id, action |-> template_config.action]

\* "if response_data:" negated.
letter_reply_ready_negated(data) == data = None

\* "if response_data:" the templated reply is built and returned.
letter_reply_ready(data) == data # None

\* action_info: the annotation of the recognised action kinds.
action_info(action) ==
    CASE action = "block_and_notify" -> <<"<p>", "BLOCK_AND_NOTIFY", "</p>">>
      [] action = "block_no_notify" -> <<"<p>", "BLOCK_NO_NOTIFY", "</p>">>
      [] action = "push_and_notify" -> <<"<p>", "PUSH_AND_NOTIFY", "</p>">>
      [] action = "lenta_gln_change" -> <<"<p>", "LENTA_GLN_CHANGE", "</p>">>
      [] OTHER -> <<>>

\* response_text of the templated reply ("SOLUTION_FOUND" is its heading,
\* the template's id stands for its description).
template_response_text(template_config) ==
    <<"<h3>", "SOLUTION_FOUND", "</h3>", "<p>", template_config.id, "</p>">>
        \o action_info(template_config.action) \o <<"<hr>">>

\* A candidate mail block of a generated answer is one token.  LabeledBlocks
\* are fenced blocks labeled json, PlainBlocks fenced blocks without a label,
\* BareObjects unfenced objects that hold a "mailto" key and a nested object;
\* the _OK ones hold what json.loads accepts, the _BAD ones what it rejects.
LabeledBlocks == {"JSON_BLOCK_OK", "JSON_BLOCK_BAD"}
PlainBlocks == {"FENCED_BLOCK_OK", "FENCED_BLOCK_BAD"}
BareObjects == {"MAILTO_OBJECT_OK", "MAILTO_OBJECT_BAD"}
MailBlocks == LabeledBlocks \cup PlainBlocks \cup BareObjects
ParsableBlocks == {"JSON_BLOCK_OK", "FENCED_BLOCK_OK", "MAILTO_OBJECT_OK"}

\* re.search: the first position of text that holds a token of S, or 0.
FirstOf(text, S) ==
    LET hits == {i \in DOMAIN text : text[i] \in S}
    IN IF hits = {} THEN 0 ELSE CHOOSE i \in hits : \A j \in hits : i <= j

\* list(re.finditer(...))[-1]: the last such position, or 0.
LastOf(text, S) ==
    LET hits == {i \in DOMAIN text : text[i] \in S}
    IN IF hits = {} THEN 0 ELSE CHOOSE i \in hits : \A j \in hits : i >= j

\* The three searches for the mail block: the first labeled fenced block,
\* else the first fenced block, else the last bare object, taken only when
\* json.loads accepts it.
locate_mail_block(text) ==
    IF FirstOf(text, LabeledBlocks) # 0 THEN FirstOf(text, LabeledBlocks)
    ELSE IF FirstOf(text, PlainBlocks) # 0 THEN FirstOf(text, PlainBlocks)
    ELSE LET k == LastOf(text, BareObjects)
         IN IF k # 0 /\ text[k] \in ParsableBlocks THEN k ELSE 0

\* "if match: try: json.loads ... replace ... strip  except: print"
parse_mail(text) ==
    LET i == locate_mail_block(text)
    IN IF i = 0 THEN [mailto |-> "none", text |-> text]
       ELSE IF text[i] \in ParsableBlocks
            THEN [mailto |-> "generated",
                  text |-> StripWs(SelectSeq(text, LAMBDA tok : tok # text[i]))]
            ELSE [mailto |-> "none", text |-> text]

PipelineQueries == {<<",">>, <<"a">>, <<"a", " ", "B">>}

Requests ==
    {NoRequest}
    \cup {[json |-> TRUE, has_text |-> FALSE, text |-> <<>>, mode |-> md] :
             md \in {"letter", "missing"}}
    \cup {[json |-> TRUE, has_text |-> TRUE, text |-> q, mode |-> md] :
             q \in PipelineQueries, md \in {"letter", "normal", "missing"}}

ConfigFiles ==
    {[state |-> "missing"], [state |-> "malformed"]}
    \cup {[state |-> "valid", templates |-> c] : c \in Configs}

GeneratedBodies == {<<"x">>,
                    <<"[", "1", "]">> \o SectionOf(<< <<"a">> >>) \o ConfidenceSeven}

\* What the generator may put behind the body of its answer.
GeneratedBlocks ==
    {<<>>}
    \cup {<<blk>> : blk \in MailBlocks}
    \cup {<<"FENCED_BLOCK_OK", " ", "JSON_BLOCK_BAD">>,
          <<"MAILTO_OBJECT_OK", "FENCED_BLOCK_OK">>,
          <<"MAILTO_OBJECT_OK", " ", "MAILTO_OBJECT_BAD">>}

GeneratedAnswers == {b \o blks : b \in GeneratedBodies, blks \in GeneratedBlocks}

\* The process before letters_templates_v2 is imported.
Init ==
    /\ config_file \in ConfigFiles
    /\ templates = <<>>
    /\ template_manager = "unset"
    /\ serving = FALSE
    /\ add_returned = "none"
    /\ query = <<>>
    /\ context = <<>>
    /\ match = NotRun
    /\ evaluated = <<>>
    /\ pc = "boot"
    /\ answer = <<>>
    /\ actual_docs = <<>>
    /\ links_dict = <<>>
    /\ processed = <<>>
    /\ reprocessed = <<>>
    /\ PipelineAtRest
    /\ loaded_templates = <<>>
    /\ ThreadsAtRest

\* The module-level "try: template_manager = LetterTemplateManagerV2()
\* except Exception: template_manager = None".
ImportTemplateManager ==
    /\ pc = "boot"
    /\ LET loaded == load_config(config_file)
       IN /\ template_manager' = IF loaded.raised = "none" THEN "loaded" ELSE "None"
          /\ templates' = loaded.templates
    /\ pc' = "imported"
    /\ UNCHANGED <<query, context, match, evaluated, sourcesVars, diskVars,
                   serving, request, response_data, gen_calls, outcome, mailto, raised>>
    /\ loaded_templates' = templates'
    /\ UNCHANGED threadVars

\* app.run(...)
AppRun ==
    /\ pc = "imported"
    /\ serving' = TRUE
    /\ pc' = "idle"
    /\ UNCHANGED <<matcherVars, sourcesVars, diskVars, template_manager,
                   request, response_data, gen_calls, outcome, mailto, raised>>
    /\ UNCHANGED <<loaded_templates, threadVars>>

\* The handler ends with the exception exc caught by its except clauses.
EndWithException(exc) ==
    /\ raised' = exc
    /\ outcome' = handler_outcome(exc)
    /\ pc' = "done"

\* A POST /api/messages arrives: get_json, the shape check, data["mode"].
ReceiveRequest ==
    /\ pc = "idle"
    /\ serving
    /\ \E req \in Requests :
        /\ request' = req
        /\ LET v == validate_request(req)
           IN \/ /\ v = "bad_request"
                 /\ outcome' = "bad_request"
                 /\ raised' = "none"
                 /\ pc' = "done"
                 /\ UNCHANGED query
              \/ /\ v = "KeyError"
                 /\ outcome' = "unhandled"
                 /\ raised' = "KeyError"
                 /\ pc' = "done"
                 /\ UNCHANGED query
              \/ /\ v = "ok"
                 /\ query' = req.text
                 /\ pc' = "retrieve"
                 /\ UNCHANGED <<outcome, raised>>
    /\ UNCHANGED <<templates, context, match, evaluated, sourcesVars, diskVars,
                   template_manager, serving, response_data, gen_calls, mailto>>
    /\ UNCHANGED <<loaded_templates, threadVars>>

\* rag_db.search, the context, links.json and actual_docs.  The search may
\* raise; a document whose metadata lacks "docs_Samara/" raises IndexError.
Retrieve ==
    /\ pc = "retrieve"
    /\ \/ /\ \E exc \in {"SearchError", "IndexError"} : EndWithException(exc)
          /\ UNCHANGED <<context, actual_docs, links_dict>>
       \/ \E c \in Contexts, r \in Retrievals :
             /\ context' = c
             /\ actual_docs' = r.docs
             /\ links_dict' = r.links
             /\ pc' = IF request.mode = "letter" THEN "match" ELSE "generate"
             /\ UNCHANGED <<outcome, raised>>
    /\ UNCHANGED <<templates, query, match, evaluated, answer, processed, reprocessed,
                   diskVars, template_manager, serving, request, response_data,
                   gen_calls, mailto>>
    /\ UNCHANGED <<loaded_templates, threadVars>>

\* template_manager.find_matching_template(query=user_message, error_message=context)
MatchTemplate ==
    /\ pc = "match"
    /\ IF template_manager = "None"
       THEN /\ EndWithException("AttributeError")
            /\ UNCHANGED <<match, evaluated>>
       ELSE /\ match' = find_matching_template(templates, query, context)
            /\ evaluated' = evaluate_all(templates, query, context)
            /\ pc' = IF match' # None THEN "assemble" ELSE "generate"
            /\ UNCHANGED <<outcome, raised>>
    /\ UNCHANGED <<templates, query, context, sourcesVars, diskVars, template_manager,
                   serving, request, response_data, gen_calls, mailto>>
    /\ UNCHANGED <<loaded_templates, threadVars>>

\* template_manager.prepare_letter_response(template_config, user_message)
PrepareLetter ==
    /\ pc = "assemble"
    /\ \E file_state \in {"ok", "absent", "unreadable"} :
        LET data == prepare_letter_response(match, file_state)
        IN IF "raised" \in DOMAIN data
           THEN /\ EndWithException(data.raised)
                /\ UNCHANGED response_data
           ELSE /\ response_data' = data
                /\ pc' = IF letter_reply_ready(data) THEN "template_reply" ELSE "generate"
                /\ UNCHANGED <<outcome, raised>>
    /\ UNCHANGED <<matcherVars, sourcesVars, diskVars, template_manager, serving,
                   request, gen_calls, mailto>>
    /\ UNCHANGED <<loaded_templates, threadVars>>

\* The templated reply: response_text, process_sources, the payload.
TemplateReply ==
    /\ pc = "template_reply"
    /\ answer' = template_response_text(match)
    /\ processed' = process_sources(answer', actual_docs, links_dict)
    /\ mailto' = "template"
    /\ outcome' = "message"
    /\ pc' = "done"
    /\ UNCHANGED <<matcherVars, actual_docs, links_dict, reprocessed, diskVars,
                   template_manager, serving, request, response_data, gen_calls, raised>>
    /\ UNCHANGED <<loaded_templates, threadVars>>

\* requests.post(MODEL_API_URL, ..., timeout=60), raise_for_status and
\* response.json()["response"].
Generate ==
    /\ pc = "generate"
    /\ gen_calls' = gen_calls + 1
    /\ \/ /\ \E exc \in {"RequestException", "KeyError"} : EndWithException(exc)
          /\ UNCHANGED answer
       \/ \E a \in GeneratedAnswers :
             /\ answer' = a
             /\ pc' = IF request.mode = "letter" THEN "parse_mail" ELSE "finish"
             /\ UNCHANGED <<outcome, raised>>
    /\ UNCHANGED <<matcherVars, actual_docs, links_dict, processed, reprocessed,
                   diskVars, template_manager, serving, request, response_data, mailto>>
    /\ UNCHANGED <<loaded_templates, threadVars>>

\* Letter mode: the mail block of the generated answer.
ParseMail ==
    /\ pc = "parse_mail"
    /\ answer' = parse_mail(answer).text
    /\ mailto' = parse_mail(answer).mailto
    /\ pc' = "finish"
    /\ UNCHANGED <<matcherVars, actual_docs, links_dict, processed, reprocessed,
                   diskVars, template_manager, serving, request, response_data,
                   gen_calls, outcome, raised>>
    /\ UNCHANGED <<loaded_templates, threadVars>>

\* process_sources on the generated answer and the payload returned.
Finish ==
    /\ pc = "finish"
    /\ processed' = process_sources(answer, actual_docs, links_dict)
    /\ outcome' = "message"
    /\ pc' = "done"
    /\ UNCHANGED <<matcherVars, answer, actual_docs, links_dict, reprocessed,
                   diskVars, template_manager, serving, request, response_data,
                   gen_calls, mailto, raised>>
    /\ UNCHANGED <<loaded_templates, threadVars>>

\* The response has been sent; the handler's locals are gone.
Complete ==
    /\ pc = "done"
    /\ pc' = "idle"
    /\ query' = <<>>
    /\ context' = <<>>
    /\ match' = NotRun
    /\ evaluated' = <<>>
    /\ answer' = <<>>
    /\ actual_docs' = <<>>
    /\ links_dict' = <<>>
    /\ processed' = <<>>
    /\ request' = NoRequest
    /\ response_data' = NotRun
    /\ gen_calls' = 0
    /\ outcome' = "none"
    /\ mailto' = "absent"
    /\ raised' = "none"
    /\ UNCHANGED <<templates, reprocessed, diskVars, template_manager, serving>>
    /\ UNCHANGED <<loaded_templates, threadVars>>

Next ==
    \/ ImportTemplateManager
    \/ AppRun
    \/ ReceiveRequest
    \/ Retrieve
    \/ MatchTemplate
    \/ PrepareLetter
    \/ TemplateReply
    \/ Generate
    \/ ParseMail
    \/ Finish
    \/ Complete

Spec == Init /\ [][Next]_vars

(***************************************************************************)
(* Claims about the request handler, checked under Spec.                   *)
(***************************************************************************)
MatcherHit == match \notin {NotRun, None}
AssemblerSucceeded == response_data \notin {NotRun, None}

\* C7: in letter mode, once the matcher has returned a template and the
\* letter assembler has succeeded for it, the generator has not been called
\* and is not called: the request goes on to the templated reply only and
\* ends with a message payload that carries the template's text and mail
\* fields.
C7_TemplatedReplyWithoutGenerator ==
    (request.mode = "letter" /\ MatcherHit /\ AssemblerSucceeded) =>
        /\ gen_calls = 0
        /\ pc \in {"template_reply", "done"}
        /\ pc = "done" =>
               /\ outcome = "message"
               /\ mailto = "template"
               /\ \E i \in DOMAIN processed : processed[i] = "SOLUTION_FOUND"

\* C7 witness: a letter request answered from a template.
C7_Witness ==
    /\ pc = "done"
    /\ request.mode = "letter"
    /\ MatcherHit
    /\ AssemblerSucceeded
    /\ outcome = "message"

\* The matcher returned none, or the assembler returned nothing for the hit.
LetterMiss ==
    /\ request.mode = "letter"
    /\ match = None \/ (MatcherHit /\ response_data = None)

C9_FailureOutcomesNoRetry ==
    /\ gen_calls <= 1
    /\ (pc = "done" /\ raised = "RequestException") =>
           (outcome = "service_unavailable" /\ gen_calls = 1)
    /\ (pc = "done" /\ validate_request(request) = "ok"
            /\ raised \notin {"none", "RequestException"}) =>
           outcome = "internal_error"

\* C9 witness: a request ended by a transport failure of its one generation call.
C9_Witness ==
    /\ pc = "done"
    /\ raised = "RequestException"
    /\ gen_calls = 1
    /\ outcome = "service_unavailable"

\* C10 (as the specification states it): the service never serves without a
\* valid template registry: app.run is reached, and a request is answered,
\* only with a loaded template manager.
C10_NoServiceWithoutRegistry ==
    /\ serving => template_manager = "loaded"
    /\ outcome = "message" => template_manager = "loaded"

\* The request lacks what the handler requires of it: no JSON body, no
\* "text" field, or no "mode" field.
InvalidShape(req) == ~req.json \/ ~req.has_text \/ req.mode = "missing"

\* C11 (as the specification states it): a request of invalid shape (no JSON
\* body, no query text, or no mode field) ends as bad-request, and every
\* request ends in a message payload or in one of the structured outcomes
\* bad-request, service-unavailable, internal-error: no exception leaves the
\* handler.
C11_InvalidShapeAndErrorsAreMapped ==
    pc = "done" =>
        /\ InvalidShape(request) => outcome = "bad_request"
        /\ outcome \in {"message", "bad_request", "service_unavailable",
                        "internal_error"}

\* C15 (as the specification states it): in the generation fallback of
\* letter mode, a mail block that is located in the generated text (a labeled
\* fenced block, else any fenced block, else an object with the mail-field
\* key) is no longer in the text that goes on to process_sources; when the
\* block cannot be parsed the request carries no mail fields and goes on; and
\* the request ends with a message payload, not with an error outcome.
C15_MailBlockRemoved ==
    /\ [][pc = "parse_mail" =>
            LET i == locate_mail_block(answer)
            IN i # 0 =>
                /\ \A k \in DOMAIN answer' : answer'[k] # answer[i]
                /\ answer[i] \notin ParsableBlocks => mailto' = "none"
                /\ pc' = "finish"]_vars
    /\ []((pc = "done" /\ request.mode = "letter" /\ gen_calls = 1 /\ raised = "none")
             => outcome = "message")

(***************************************************************************)
(* SpecThreads: add_template called from several threads while another     *)
(* thread runs the loop of find_matching_template.  The class holds no     *)
(* lock; a thread switch may fall between any two statements of            *)
(* add_template, between two iterations of "for template in                *)
(* self.templates", and inside list.sort while its key function runs.      *)
(* list.sort works on the list's items set aside: for its duration the     *)
(* list appears empty, and at its end the sorted items are put back, in    *)
(* place of whatever the list was given meanwhile (ValueError then).       *)
(***************************************************************************)
\* Calls of add_template that one thread makes.
MaxCalls == 1

\* Templates in the configuration the threads start from.
MaxLoaded == 2

ThreadConfigs == {c \in Configs : Len(c) <= MaxLoaded}

InitThreads ==
    /\ config_file \in {[state |-> "valid", templates |-> c] : c \in ThreadConfigs}
    /\ templates = load_config(config_file).templates
    /\ loaded_templates = templates
    /\ template_manager = "loaded"
    /\ serving = FALSE
    /\ add_returned = "none"
    /\ query = <<>>
    /\ context = <<>>
    /\ match = None
    /\ evaluated = <<>>
    /\ pc = "threads"
    /\ answer = <<>>
    /\ actual_docs = <<>>
    /\ links_dict = <<>>
    /\ processed = <<>>
    /\ reprocessed = <<>>
    /\ PipelineAtRest
    /\ ThreadsAtRest

\* What a step of the threads leaves alone.
threadFrame == <<query, context, match, evaluated, pc, sourcesVars, add_returned,
                 pipelineVars, loaded_templates>>

\* Thread w enters add_template with the template it is to add.
CallAddTemplate(w) ==
    /\ writers[w].pc = "idle"
    /\ writers[w].calls < MaxCalls
    /\ \E t \in AddPool :
        writers' = [writers EXCEPT ![w] = [pc |-> "check", new_template |-> t,
                                           saved |-> <<>>,
                                           calls |-> writers[w].calls + 1]]
    /\ UNCHANGED <<templates, config_file, reader, threadFrame>>

\* "if any(t['id'] == template_id for t in self.templates): return False"
CheckId(w) ==
    /\ writers[w].pc = "check"
    /\ writers' = [writers EXCEPT ![w].pc =
                       IF id_exists(templates, writers[w].new_template.id)
                       THEN "returned_False" ELSE "append"]
    /\ UNCHANGED <<templates, config_file, reader, threadFrame>>

\* "self.templates.append(new_template)"
AppendTemplate(w) ==
    /\ writers[w].pc = "append"
    /\ templates' = Append(templates, writers[w].new_template)
    /\ writers' = [writers EXCEPT ![w].pc = "sort"]
    /\ UNCHANGED <<config_file, reader, threadFrame>>

\* "self.templates.sort(...)" begins: the items are set aside.
SortBegin(w) ==
    /\ writers[w].pc = "sort"
    /\ writers' = [writers EXCEPT ![w].pc = "sorting", ![w].saved = templates]
    /\ templates' = <<>>
    /\ UNCHANGED <<config_file, reader, threadFrame>>

\* "self.templates.sort(...)" ends: the sorted items are put back; a list that
\* is no longer empty was modified during the sort, and ValueError leaves
\* add_template.
SortEnd(w) ==
    /\ writers[w].pc = "sorting"
    /\ templates' = SortByPriority(writers[w].saved)
    /\ writers' = [writers EXCEPT ![w].pc = IF templates = <<>> THEN "save"
                                            ELSE "raised_ValueError",
                                  ![w].saved = <<>>]
    /\ UNCHANGED <<config_file, reader, threadFrame>>

\* "return self._save_config()"
SaveConfig(w) ==
    /\ writers[w].pc = "save"
    /\ \E write \in WriteResults :
        /\ config_file' = save_config(config_file, templates, write)
        /\ writers' = [writers EXCEPT ![w].pc = "returned_" \o save_config_returns(write)]
    /\ UNCHANGED <<templates, reader, threadFrame>>

\* The call of thread w is over.
LeaveAddTemplate(w) ==
    /\ writers[w].pc \in {"returned_True", "returned_False", "raised_ValueError"}
    /\ writers' = [writers EXCEPT ![w].pc = "idle", ![w].new_template = None]
    /\ UNCHANGED <<templates, config_file, reader, threadFrame>>

\* find_matching_template reaches "for template in self.templates":
ReaderStart ==
    /\ reader.pc = "idle"
    /\ reader' = [pc |-> "iterating", i |-> 0, seen |-> <<>>]
    /\ UNCHANGED <<templates, config_file, writers, threadFrame>>

\* One step of the list iterator: the next item, or the end of the loop.
ReaderNext ==
    /\ reader.pc = "iterating"
    /\ reader' = IF reader.i < Len(templates)
                 THEN [pc |-> "iterating", i |-> reader.i + 1,
                       seen |-> Append(reader.seen, templates[reader.i + 1])]
                 ELSE [reader EXCEPT !.pc = "finished"]
    /\ UNCHANGED <<templates, config_file, writers, threadFrame>>

\* find_matching_template returns.
ReaderReturn ==
    /\ reader.pc = "finished"
    /\ reader' = IdleReader
    /\ UNCHANGED <<templates, config_file, writers, threadFrame>>

NextThreads ==
    \/ \E w \in Writers :
          \/ CallAddTemplate(w)
          \/ CheckId(w)
          \/ AppendTemplate(w)
          \/ SortBegin(w)
          \/ SortEnd(w)
          \/ SaveConfig(w)
          \/ LeaveAddTemplate(w)
    \/ ReaderStart
    \/ ReaderNext
    \/ ReaderReturn

SpecThreads == InitThreads /\ [][NextThreads]_vars

(***************************************************************************)
(* Claims about concurrent use of the registry, checked under SpecThreads. *)
(***************************************************************************)
\* The registry lists that stand between mutations: the loaded list with
\* some of the templates being added, sorted.
AddedSeqs == SeqsUpTo(AddPool, MaxCalls * Cardinality(Writers))
Snapshots == {SortByPriority(loaded_templates \o s) : s \in AddedSeqs}

\* C12 (as the specification states it): the templates that one run of the
\* matcher's loop has iterated over form a complete registry snapshot, sorted
\* by descending priority: the list as it stood before a mutation or the
\* fully rebuilt list after it.
C12_ReaderSeesCompleteSnapshot ==
    reader.pc = "finished" => reader.seen \in Snapshots

\* C14 (as the specification states it): no two templates of the registry
\* share an id, in every state that add_template calls reach from a loaded
\* configuration of pairwise distinct ids, the calls of concurrent callers
\* included.
C14_IdsUnique == DistinctIds(templates)

====
